---- MODULE Spec2Model ----
(***************************************************************************)
(* Model of name_to_free_port.py: the deterministic name -> port search    *)
(* (find_free_port_for_name), its helpers (_hash_to_port, _is_port_free,   *)
(* describe_listener) and the command line driver (main) with its          *)
(* clipboard step.  One run of the program is one behaviour of Spec; the   *)
(* pure helpers are also exercised on their own by SpecDerive and          *)
(* SpecEncode.                                                             *)
(*                                                                         *)
(* A run starts at the module's import block and takes parse_args to       *)
(* return a namespace.  --host is not part of the state: socket creation   *)
(* succeeds, and setsockopt/bind on (host, port) either completes or       *)
(* raises OSError.                                                         *)
(*                                                                         *)
(* Text is modelled as sequences of code points, bytes as sequences of     *)
(* 0..255.  The SHA-256 digest is an oracle: an arbitrary but fixed        *)
(* function of the hashed bytes (the variable digests memoises it).        *)
(***************************************************************************)
EXTENDS Integers, Sequences, FiniteSets

VARIABLES
    pc,                 \* position of the run in the program text
    PSUTIL_AVAILABLE,   \* module global set by the import block
    args,               \* argparse namespace returned by parse_args
    system,             \* platform.system().lower(), "unread" until first read
    salt,               \* loop variable of find_free_port_for_name
    port,               \* candidate port of the current iteration
    open_sockets,       \* number of probe sockets currently open
    bind_ok,            \* outcome of the bind of the current probe
    listener,           \* ListenerInfo.text of the current iteration
    result,             \* (port, salt) returned by find_free_port_for_name
    do_copy,            \* local do_copy of main
    tty,                \* what should_prompt_copy observed
    answers,            \* normalised answers read by prompt_yes_no so far
    clip,               \* ClipboardResult of copy_to_clipboard
    streams,            \* what was written to stdout and stderr
    error,              \* exception that ended the run
    exit_status,        \* process exit status
    probe_log,          \* history: one record per _is_port_free call
    inspect_log,        \* history: ports handed to describe_listener
    digests,            \* SHA-256 oracle: hashed bytes -> first 8 bytes as int
    derive_log,         \* history of _hash_to_port calls (SpecDerive)
    encode_log          \* history of hash inputs built (SpecEncode)

vars == <<pc, PSUTIL_AVAILABLE, args, system, salt, port, open_sockets, bind_ok,
          listener, result, do_copy, tty, answers, clip, streams, error,
          exit_status, probe_log, inspect_log, digests, derive_log, encode_log>>

-----------------------------------------------------------------------------
(* Bounds of the model *)

MaxAttempts == 3      \* largest --max-attempts explored
MaxSpan == 2          \* largest number of ports in an explored range
MaxPrompts == 2       \* answers read by one prompt_yes_no call
MaxNameLen == 2       \* longest name explored by SpecEncode
MaxSalt == 12         \* largest salt explored by SpecEncode

(* Program constants *)

MIN_VALID_PORT == 1
MAX_VALID_PORT == 65535
NUL == 0
EXIT_OK == 0
EXIT_UNCAUGHT == 1

-----------------------------------------------------------------------------
(* Text helpers *)

NameAlphabet == {0, 49, 233}     \* NUL, "1", e-acute

RECURSIVE Texts(_)
Texts(n) ==
    IF n = 0 THEN {<<>>}
    ELSE LET shorter == Texts(n - 1)
         IN  shorter \cup {Append(t, c) : t \in {s \in shorter : Len(s) = n - 1},
                                          c \in NameAlphabet}

\* str.encode("utf-8") for code points below 2048
Utf8Char(cp) ==
    IF cp < 128 THEN <<cp>> ELSE <<192 + (cp \div 64), 128 + (cp % 64)>>

RECURSIVE Utf8(_)
Utf8(text) ==
    IF text = <<>> THEN <<>> ELSE Utf8Char(Head(text)) \o Utf8(Tail(text))

RECURSIVE Digits(_)
Digits(n) ==
    IF n < 10 THEN <<48 + n>> ELSE Append(Digits(n \div 10), 48 + (n % 10))

\* str(int) as used by the f-string
IntStr(n) == IF n < 0 THEN <<45>> \o Digits(-n) ELSE Digits(n)

\* variant: name and salt joined without the separator
HashData_NoSeparator(name, s) == Utf8(name \o IntStr(s))

\* f"{name}\0{salt}".encode("utf-8")
HashData(name, s) == Utf8(name \o <<NUL>> \o IntStr(s))

-----------------------------------------------------------------------------
(* _hash_to_port *)

InvalidRange(min_port, max_port) ==
    min_port < MIN_VALID_PORT \/ max_port > MAX_VALID_PORT \/ min_port >= max_port

\* variant: span one too large
PortSpan_OffByOne(min_port, max_port) == (max_port - min_port) + 2

PortSpan(min_port, max_port) == (max_port - min_port) + 1

\* int.from_bytes(digest[:8], "big"): the values explored reach past every span
DigestValues == 0..MaxSpan

\* values the oracle may give for data: the memoised one, or any if new
DigestChoices(data) ==
    IF data \in DOMAIN digests THEN {digests[data]} ELSE DigestValues

Memoise(data, n) ==
    [d \in DOMAIN digests \cup {data} |-> IF d = data THEN n ELSE digests[d]]

\* the value returned once the digest prefix n is known
_hash_to_port(n, min_port, max_port) ==
    min_port + (n % PortSpan(min_port, max_port))

-----------------------------------------------------------------------------
(* Output streams *)

Msg(kind, s, p) == [kind |-> kind, salt |-> s, port |-> p]

Write(out, stream, msg) == [out EXCEPT ![stream] = Append(@, msg)]

\* variant: the busy diagnostic written to the primary stream
DiagnosticStream_Stdout == "stdout"

\* file=sys.stderr of the "[in use]" print
DiagnosticStream == "stderr"

-----------------------------------------------------------------------------
(* _run_cmd and the listener inspection *)

Systems == {"darwin", "linux", "windows", "other"}

\* platform.system() gives the same answer throughout a run
SystemChoices == IF system = "unread" THEN Systems ELSE {system}

\* what subprocess.run can do: raise, or complete with a code and output
RawRuns ==
    [exc : {"FileNotFoundError", "OSError"}, returncode : {127}, stdout : {""}]
    \cup [exc : {"none"}, returncode : {0, 1}, stdout : {"", "\n", "output"}]

\* a command the platform branch taken never runs
NotRun == [exc |-> "none", returncode |-> 0, stdout |-> ""]
RunsIf(used) == IF used THEN RawRuns ELSE {NotRun}

Strip(text) == IF text \in {"", "\n", " "} THEN "" ELSE text

\* variant: a missing tool is not caught
_run_cmd_Propagates(raw) ==
    IF raw.exc = "FileNotFoundError"
    THEN [rc |-> 127, out |-> "", raised |-> "FileNotFoundError"]
    ELSE IF raw.exc # "none"
         THEN [rc |-> 1, out |-> "(failed to run)", raised |-> "none"]
         ELSE [rc |-> raw.returncode, out |-> Strip(raw.stdout), raised |-> "none"]

_run_cmd(raw) ==
    IF raw.exc = "FileNotFoundError"
    THEN [rc |-> 127, out |-> "(command not found)", raised |-> "none"]
    ELSE IF raw.exc # "none"
         THEN [rc |-> 1, out |-> "(failed to run)", raised |-> "none"]
         ELSE [rc |-> raw.returncode, out |-> Strip(raw.stdout), raised |-> "none"]

Info(text) == [text |-> text, raised |-> "none"]
Raised(exc) == [text |-> "", raised |-> exc]
NoListener == "<unbound>"

\* connections psutil.net_connections may report while probing port p
Connections(p) ==
    { [lport |-> p, status |-> "LISTEN", pid |-> 7, lookup |-> "ok"],
      [lport |-> p, status |-> "LISTEN", pid |-> 7, lookup |-> "denied"],
      [lport |-> p, status |-> "LISTEN", pid |-> 0, lookup |-> "ok"],
      [lport |-> p, status |-> "ESTABLISHED", pid |-> 7, lookup |-> "ok"],
      [lport |-> p + 1, status |-> "LISTEN", pid |-> 7, lookup |-> "ok"] }

ProcDesc(c) ==
    IF c.pid = 0 THEN "pid=?"
    ELSE IF c.lookup = "ok" THEN "pid name exe" ELSE "pid"

\* _listener_via_psutil once psutil is available; failed: net_connections raised
_listener_via_psutil(p, failed, conns) ==
    IF failed THEN Info("(psutil present, but net_connections failed)")
    ELSE LET listeners == {ProcDesc(c) : c \in {x \in conns : x.lport = p /\ x.status = "LISTEN"}}
         IN  IF listeners = {} THEN Info("(No LISTEN socket found via psutil)")
             ELSE IF "pid name exe" \in listeners THEN Info("listeners with process")
             ELSE Info("listeners without process")

\* lsof, ss, netstat: the raw outcome of each command, were it run
_listener_via_os_tools(sys, lsof, ss, netstat) ==
    IF sys \in {"darwin", "linux"}
    THEN LET r1 == _run_cmd(lsof)
             r2 == _run_cmd(ss)
         IN  IF r1.raised # "none" THEN Raised(r1.raised)
             ELSE IF r1.rc = 0 /\ r1.out # "" THEN Info(r1.out)
             ELSE IF sys = "linux" /\ r2.raised # "none" THEN Raised(r2.raised)
             ELSE IF sys = "linux" /\ r2.out # "" THEN Info(r2.out)
             ELSE Info(IF r1.out # "" THEN r1.out ELSE "(could not determine listener)")
    ELSE IF sys = "windows"
    THEN LET r == _run_cmd(netstat)
         IN  IF r.raised # "none" THEN Raised(r.raised)
             ELSE Info(IF r.out # "" THEN r.out ELSE "(could not determine listener)")
    ELSE Info("(unsupported OS tools for listener detection)")

-----------------------------------------------------------------------------
(* Clipboard and prompt *)

NoClip == [called |-> FALSE, ok |-> FALSE, method |-> "", details |-> ""]
ClipboardResult(ok, method, details) ==
    [called |-> TRUE, ok |-> ok, method |-> method, details |-> details]

\* what running one clipboard utility can do
ToolRuns ==
    {[found |-> FALSE, returncode |-> 127], [found |-> TRUE, returncode |-> 0],
     [found |-> TRUE, returncode |-> 1]}
ToolNotRun == [found |-> FALSE, returncode |-> 127]
ToolRunsIf(used) == IF used THEN ToolRuns ELSE {ToolNotRun}

copy_to_clipboard(sys, run) ==
    IF sys = "darwin"
    THEN IF run.pbcopy.found
         THEN ClipboardResult(run.pbcopy.returncode = 0, "pbcopy", "")
         ELSE ClipboardResult(FALSE, "pbcopy", "pbcopy not found")
    ELSE IF sys = "windows"
    THEN IF run.clip.found
         THEN ClipboardResult(run.clip.returncode = 0, "clip", "")
         ELSE ClipboardResult(FALSE, "clip", "clip not found")
    ELSE IF run.wl_copy.found /\ run.wl_copy.returncode = 0
    THEN ClipboardResult(TRUE, "wl-copy", "")
    ELSE IF run.xclip.found /\ run.xclip.returncode = 0
    THEN ClipboardResult(TRUE, "xclip", "")
    ELSE IF run.xsel.found /\ run.xsel.returncode = 0
    THEN ClipboardResult(TRUE, "xsel", "")
    ELSE ClipboardResult(FALSE, "none", "No clipboard tool found")

\* variant: only the input stream is tested
should_prompt_copy_StdinOnly(stdin_tty, stderr_tty) == stdin_tty

should_prompt_copy(stdin_tty, stderr_tty) == stdin_tty /\ stderr_tty

Whitespace == {9, 10, 13, 32}

RECURSIVE LStrip(_)
LStrip(t) == IF t # <<>> /\ Head(t) \in Whitespace THEN LStrip(Tail(t)) ELSE t

RECURSIVE RStrip(_)
RStrip(t) ==
    IF t # <<>> /\ t[Len(t)] \in Whitespace THEN RStrip(SubSeq(t, 1, Len(t) - 1)) ELSE t

Lower(t) == [i \in 1..Len(t) |-> IF t[i] \in 65..90 THEN t[i] + 32 ELSE t[i]]

\* input().strip().lower()
Normalise(raw) == Lower(RStrip(LStrip(raw)))

YES == {<<121>>, <<121, 101, 115>>}
NO == {<<110>>, <<110, 111>>}

\* lines the user may type: "", " ", "y", "YES", " n ", "NO", "x"
RawAnswers ==
    {<<>>, <<32>>, <<121>>, <<89, 69, 83>>, <<32, 110, 32>>, <<78, 79>>, <<120>>}

\* one iteration of prompt_yes_no: "yes", "no" or "again"
prompt_yes_no(eof, raw, default) ==
    IF eof THEN (IF default THEN "yes" ELSE "no")
    ELSE LET ans == Normalise(raw)
         IN  IF ans = <<>> THEN (IF default THEN "yes" ELSE "no")
             ELSE IF ans \in YES THEN "yes"
             ELSE IF ans \in NO THEN "no"
             ELSE "again"

-----------------------------------------------------------------------------
(* Inputs *)

SearchNames == {<<233, 49>>}

\* --min-port / --max-port pairs around both ends of the legal interval
LowPorts == {MIN_VALID_PORT - 1, MIN_VALID_PORT, MAX_VALID_PORT - 1, MAX_VALID_PORT}
PortRanges == {<<lo, lo + d>> : lo \in LowPorts, d \in (-1)..(MaxSpan - 1)}

\* --copy and --no-copy are mutually exclusive
ArgSpace ==
    { a \in [name : SearchNames, range : PortRanges,
             max_attempts : (-1)..MaxAttempts, copy : BOOLEAN, no_copy : BOOLEAN] :
        ~(a.copy /\ a.no_copy) }

NoArgs ==
    [name |-> <<>>, range |-> <<0, 0>>, max_attempts |-> 0, copy |-> FALSE,
     no_copy |-> FALSE]

NoResult == [found |-> FALSE, port |-> 0, salt |-> 0]
NoTty == [asked |-> FALSE, stdin |-> FALSE, stderr |-> FALSE]

\* every variable before the first statement runs, at position p
Start(p) ==
    /\ pc = p
    /\ PSUTIL_AVAILABLE = FALSE
    /\ args = NoArgs
    /\ system = "unread"
    /\ salt = 0
    /\ port = 0
    /\ open_sockets = 0
    /\ bind_ok = FALSE
    /\ listener = NoListener
    /\ result = NoResult
    /\ do_copy = FALSE
    /\ tty = NoTty
    /\ answers = <<>>
    /\ clip = NoClip
    /\ streams = [stdout |-> <<>>, stderr |-> <<>>]
    /\ error = "none"
    /\ exit_status = -1
    /\ probe_log = <<>>
    /\ inspect_log = <<>>
    /\ digests = <<>>
    /\ derive_log = {}
    /\ encode_log = {}

Init == Start("import")

\* an uncaught exception ends the process
Uncaught(exc) ==
    /\ error' = exc
    /\ exit_status' = EXIT_UNCAUGHT
    /\ pc' = "exit"

-----------------------------------------------------------------------------
(* Module import and argument parsing *)

ImportPsutil ==
    /\ pc = "import"
    /\ \E available \in BOOLEAN :
          /\ PSUTIL_AVAILABLE' = available
          /\ streams' = Write(streams, "stderr",
                              Msg(IF available THEN "psutil detected"
                                  ELSE "psutil warning", -1, -1))
    /\ pc' = "parse_args"
    /\ UNCHANGED <<args, system, salt, port, open_sockets, bind_ok, listener, result,
                   do_copy, tty, answers, clip, error, exit_status, probe_log,
                   inspect_log, digests, derive_log, encode_log>>

ParseArgs ==
    /\ pc = "parse_args"
    /\ args' \in ArgSpace
    /\ pc' = "for_salt"
    /\ UNCHANGED <<PSUTIL_AVAILABLE, system, salt, port, open_sockets, bind_ok,
                   listener, result, do_copy, tty, answers, clip, streams, error,
                   exit_status, probe_log, inspect_log, digests, derive_log,
                   encode_log>>

-----------------------------------------------------------------------------
(* find_free_port_for_name *)

\* variant: one iteration too many
RangeExhausted_OffByOne(s, max_attempts) == s > max_attempts

\* range(max_attempts) has no further element
RangeExhausted(s, max_attempts) == s >= max_attempts

\* variant: the iterator skips a salt
NextSalt_Skip(s) == s + 2

NextSalt(s) == s + 1

\* variant: the socket is closed on the success path only
SocketsAfterProbe_LeakOnFailure(n, ok) == IF ok THEN n - 1 ELSE n

\* finally: s.close(), whatever bind did
SocketsAfterProbe(n, ok) == n - 1

ForSalt ==
    /\ pc = "for_salt"
    /\ IF RangeExhausted(salt, args.max_attempts)
       THEN Uncaught("RuntimeError")
       ELSE /\ pc' = "hash"
            /\ UNCHANGED <<error, exit_status>>
    /\ UNCHANGED <<PSUTIL_AVAILABLE, args, system, salt, port, open_sockets, bind_ok,
                   listener, result, do_copy, tty, answers, clip, streams,
                   probe_log, inspect_log, digests, derive_log, encode_log>>

HashToPort ==
    /\ pc = "hash"
    /\ IF InvalidRange(args.range[1], args.range[2])
       THEN /\ Uncaught("ValueError")
            /\ UNCHANGED <<port, digests>>
       ELSE \E n \in DigestChoices(HashData(args.name, salt)) :
               /\ digests' = Memoise(HashData(args.name, salt), n)
               /\ port' = _hash_to_port(n, args.range[1], args.range[2])
               /\ pc' = "socket"
               /\ UNCHANGED <<error, exit_status>>
    /\ UNCHANGED <<PSUTIL_AVAILABLE, args, system, salt, open_sockets, bind_ok,
                   listener, result, do_copy, tty, answers, clip, streams,
                   probe_log, inspect_log, derive_log, encode_log>>

SocketCreate ==
    /\ pc = "socket"
    /\ open_sockets' = open_sockets + 1
    /\ pc' = "bind"
    /\ UNCHANGED <<PSUTIL_AVAILABLE, args, system, salt, port, bind_ok, listener,
                   result, do_copy, tty, answers, clip, streams, error, exit_status,
                   probe_log, inspect_log, digests, derive_log, encode_log>>

\* setsockopt + bind: completes, or raises OSError
Bind ==
    /\ pc = "bind"
    /\ bind_ok' \in BOOLEAN
    /\ pc' = "close"
    /\ UNCHANGED <<PSUTIL_AVAILABLE, args, system, salt, port, open_sockets, listener,
                   result, do_copy, tty, answers, clip, streams, error, exit_status,
                   probe_log, inspect_log, digests, derive_log, encode_log>>

\* the finally clause, then the caller's branch on the returned boolean
CloseAndReturn ==
    /\ pc = "close"
    /\ open_sockets' = SocketsAfterProbe(open_sockets, bind_ok)
    /\ probe_log' = Append(probe_log, [salt |-> salt, port |-> port, free |-> bind_ok])
    /\ IF bind_ok
       THEN /\ result' = [found |-> TRUE, port |-> port, salt |-> salt]
            /\ pc' = "print_port"
       ELSE /\ pc' = "describe"
            /\ UNCHANGED result
    /\ UNCHANGED <<PSUTIL_AVAILABLE, args, system, salt, port, bind_ok, listener,
                   do_copy, tty, answers, clip, streams, error, exit_status,
                   inspect_log, digests, derive_log, encode_log>>

\* describe_listener: psutil first, the OS tools when it returns None
DescribeListener ==
    /\ pc = "describe"
    /\ inspect_log' = Append(inspect_log, port)
    /\ \E sys \in SystemChoices :
          /\ system' = IF PSUTIL_AVAILABLE THEN system ELSE sys
          /\ \E info \in
                  IF PSUTIL_AVAILABLE
                  THEN {_listener_via_psutil(port, TRUE, {})}
                       \cup {_listener_via_psutil(port, FALSE, conns) :
                                conns \in SUBSET Connections(port)}
                  ELSE {_listener_via_os_tools(sys, lsof, ss, netstat) :
                           lsof \in RunsIf(sys \in {"darwin", "linux"}),
                           ss \in RunsIf(sys = "linux"),
                           netstat \in RunsIf(sys = "windows")} :
                IF info.raised # "none"
                THEN /\ Uncaught(info.raised)
                     /\ UNCHANGED listener
                ELSE /\ listener' = info.text
                     /\ pc' = "in_use"
                     /\ UNCHANGED <<error, exit_status>>
    /\ UNCHANGED <<PSUTIL_AVAILABLE, args, salt, port, open_sockets, bind_ok, result,
                   do_copy, tty, answers, clip, streams, probe_log, digests,
                   derive_log, encode_log>>

\* the "[in use]" print, then the next element of range(max_attempts);
\* listener is not read again before the next iteration rebinds it
ReportInUse ==
    /\ pc = "in_use"
    /\ streams' = Write(streams, DiagnosticStream, Msg("in use", salt, port))
    /\ listener' = NoListener
    /\ salt' = NextSalt(salt)
    /\ pc' = "for_salt"
    /\ UNCHANGED <<PSUTIL_AVAILABLE, args, system, port, open_sockets, bind_ok,
                   result, do_copy, tty, answers, clip, error, exit_status,
                   probe_log, inspect_log, digests, derive_log, encode_log>>

-----------------------------------------------------------------------------
(* main, after the search has returned *)

\* variant: a failed copy becomes the exit status
MainReturn_FailOnClipboard(c) == IF c.called /\ ~c.ok THEN 1 ELSE EXIT_OK

\* return 0
MainReturn(c) == EXIT_OK

PrintPort ==
    /\ pc = "print_port"
    /\ streams' = Write(streams, "stdout", Msg("port", -1, result.port))
    /\ pc' = "decide_copy"
    /\ UNCHANGED <<PSUTIL_AVAILABLE, args, system, salt, port, open_sockets, bind_ok,
                   listener, result, do_copy, tty, answers, clip, error, exit_status,
                   probe_log, inspect_log, digests, derive_log, encode_log>>

\* the if / elif / else that sets do_copy, up to the first prompt
DecideCopy ==
    /\ pc = "decide_copy"
    /\ IF args.copy
       THEN /\ do_copy' = TRUE
            /\ pc' = "copy"
            /\ UNCHANGED tty
       ELSE IF args.no_copy
       THEN /\ do_copy' = FALSE
            /\ pc' = "return"
            /\ UNCHANGED tty
       ELSE \E stdin_tty \in BOOLEAN, stderr_tty \in BOOLEAN :
               /\ tty' = [asked |-> TRUE, stdin |-> stdin_tty, stderr |-> stderr_tty]
               /\ IF should_prompt_copy(stdin_tty, stderr_tty)
                  THEN /\ pc' = "prompt"
                       /\ UNCHANGED do_copy
                  ELSE /\ do_copy' = FALSE
                       /\ pc' = "return"
    /\ UNCHANGED <<PSUTIL_AVAILABLE, args, system, salt, port, open_sockets, bind_ok,
                   listener, result, answers, clip, streams, error, exit_status,
                   probe_log, inspect_log, digests, derive_log, encode_log>>

\* one iteration of the loop of prompt_yes_no(..., default=True)
Prompt ==
    /\ pc = "prompt"
    /\ \E eof \in BOOLEAN, raw \in RawAnswers :
          LET verdict == prompt_yes_no(eof, raw, TRUE)
              asked == Write(streams, "stderr", Msg("prompt", -1, result.port))
          IN  /\ eof => raw = <<>>
              /\ verdict = "again" => Len(answers) + 1 < MaxPrompts
              /\ answers' = Append(answers,
                                   [eof |-> eof,
                                    text |-> IF eof THEN <<>> ELSE Normalise(raw)])
              /\ IF verdict = "again"
                 THEN /\ streams' = Write(asked, "stderr", Msg("please answer", -1, -1))
                      /\ pc' = "prompt"
                      /\ UNCHANGED do_copy
                 ELSE /\ streams' = asked
                      /\ do_copy' = (verdict = "yes")
                      /\ pc' = IF verdict = "yes" THEN "copy" ELSE "return"
    /\ UNCHANGED <<PSUTIL_AVAILABLE, args, system, salt, port, open_sockets, bind_ok,
                   listener, result, tty, clip, error, exit_status, probe_log,
                   inspect_log, digests, derive_log, encode_log>>

\* copy_to_clipboard(str(port)) and the message about its result
CopyToClipboard ==
    /\ pc = "copy"
    /\ \E sys \in SystemChoices :
          /\ system' = sys
          /\ clip' \in
                {copy_to_clipboard(sys,
                                   [pbcopy |-> a, clip |-> b, wl_copy |-> c,
                                    xclip |-> d, xsel |-> e]) :
                    a \in ToolRunsIf(sys = "darwin"),
                    b \in ToolRunsIf(sys = "windows"),
                    c \in ToolRunsIf(sys \notin {"darwin", "windows"}),
                    d \in ToolRunsIf(sys \notin {"darwin", "windows"}),
                    e \in ToolRunsIf(sys \notin {"darwin", "windows"})}
    /\ streams' = Write(streams, "stderr",
                        Msg(IF clip'.ok THEN "copied" ELSE "could not copy",
                            -1, result.port))
    /\ pc' = "return"
    /\ UNCHANGED <<PSUTIL_AVAILABLE, args, salt, port, open_sockets, bind_ok, listener,
                   result, do_copy, tty, answers, error, exit_status, probe_log,
                   inspect_log, digests, derive_log, encode_log>>

\* return 0, handed to SystemExit
Return ==
    /\ pc = "return"
    /\ exit_status' = MainReturn(clip)
    /\ pc' = "exit"
    /\ UNCHANGED <<PSUTIL_AVAILABLE, args, system, salt, port, open_sockets, bind_ok,
                   listener, result, do_copy, tty, answers, clip, streams, error,
                   probe_log, inspect_log, digests, derive_log, encode_log>>

Next ==
    \/ ImportPsutil
    \/ ParseArgs
    \/ ForSalt
    \/ HashToPort
    \/ SocketCreate
    \/ Bind
    \/ CloseAndReturn
    \/ DescribeListener
    \/ ReportInUse
    \/ PrintPort
    \/ DecideCopy
    \/ Prompt
    \/ CopyToClipboard
    \/ Return

Spec == Init /\ [][Next]_vars

-----------------------------------------------------------------------------
(* The pure helpers on their own *)

DeriveNames == SearchNames \cup {<<49>>}

InitDerive == Start("derive")

\* one call _hash_to_port(name, s, min_port, max_port), recorded with its outcome;
\* determinism relates two calls, so two records are kept
DeriveCall ==
    /\ pc = "derive"
    /\ Cardinality(derive_log) < 2
    /\ \E name \in DeriveNames, s \in 0..MaxAttempts, r \in PortRanges :
          IF InvalidRange(r[1], r[2])
          THEN /\ derive_log' = derive_log \cup
                     {[name |-> name, salt |-> s, min_port |-> r[1], max_port |-> r[2],
                       raised |-> "ValueError", port |-> 0]}
               /\ UNCHANGED digests
          ELSE \E n \in DigestChoices(HashData(name, s)) :
                  /\ digests' = Memoise(HashData(name, s), n)
                  /\ derive_log' = derive_log \cup
                        {[name |-> name, salt |-> s, min_port |-> r[1],
                          max_port |-> r[2], raised |-> "none",
                          port |-> _hash_to_port(n, r[1], r[2])]}
    /\ UNCHANGED <<pc, PSUTIL_AVAILABLE, args, system, salt, port, open_sockets,
                   bind_ok, listener, result, do_copy, tty, answers, clip, streams,
                   error, exit_status, probe_log, inspect_log, encode_log>>

NextDerive == DeriveCall

SpecDerive == InitDerive /\ [][NextDerive]_vars

InitEncode == Start("encode")

\* the bytes handed to sha256 for one (name, salt); injectivity relates two inputs,
\* so two records are kept
EncodeCall ==
    /\ pc = "encode"
    /\ Cardinality(encode_log) < 2
    /\ \E name \in Texts(MaxNameLen), s \in 0..MaxSalt :
          encode_log' = encode_log \cup
              {[name |-> name, salt |-> s, data |-> HashData(name, s)]}
    /\ UNCHANGED <<pc, PSUTIL_AVAILABLE, args, system, salt, port, open_sockets,
                   bind_ok, listener, result, do_copy, tty, answers, clip, streams,
                   error, exit_status, probe_log, inspect_log, digests, derive_log>>

NextEncode == EncodeCall

SpecEncode == InitEncode /\ [][NextEncode]_vars

-----------------------------------------------------------------------------
(* Properties *)

min_port == args.range[1]
max_port == args.range[2]
ValidRange == ~InvalidRange(min_port, max_port)
Exited == pc = "exit"

\* derive(name, k, range) as the run computed it
Derived(k) == _hash_to_port(digests[HashData(args.name, k)], min_port, max_port)

IsInUse(m) == m.kind = "in use"
IsPrompt(m) == m.kind = "prompt"
InUseLines(stream) == SelectSeq(streams[stream], IsInUse)
ProbesBusy(n) == \A i \in 1..n : ~probe_log[i].free

\* C1: when the search succeeds on a valid request, the salt returned is the
\* smallest one whose derived port was probed free, the port returned is the port
\* derived for that salt, salts 0..salt-1 were probed once each, in increasing
\* order, found busy and reported by one busy diagnostic each, and the number of
\* probes is salt + 1.
C1_FirstFreeSalt ==
    (result.found /\ ValidRange /\ args.max_attempts >= 1) =>
        /\ result.salt \in 0..(args.max_attempts - 1)
        /\ Len(probe_log) = result.salt + 1
        /\ \A i \in 1..Len(probe_log) :
              /\ probe_log[i].salt = i - 1
              /\ probe_log[i].port = Derived(i - 1)
              /\ probe_log[i].free = (i = result.salt + 1)
        /\ result.port = Derived(result.salt)
        /\ InUseLines("stderr") =
              [i \in 1..result.salt |-> Msg("in use", i - 1, Derived(i - 1))]
        /\ inspect_log = [i \in 1..result.salt |-> Derived(i - 1)]

\* the salt-0 port was busy, reported once, and the search returned salt 1
C1_Witness ==
    /\ Exited
    /\ result.found
    /\ result.salt = 1
    /\ result.port = Derived(1)
    /\ Len(InUseLines("stderr")) = 1

\* C2: for a budget max_attempts >= 0, if every probed port is busy the search
\* makes exactly max_attempts probes, one per salt in increasing order and never
\* more, then fails with the exhaustion error; the process exits non-zero and
\* stdout stays empty.
C2_ExhaustedAfterMaxAttempts ==
    /\ (ValidRange /\ args.max_attempts >= 0) => Len(probe_log) <= args.max_attempts
    /\ (/\ Exited
        /\ args.max_attempts >= 0
        /\ ValidRange \/ args.max_attempts = 0
        /\ ProbesBusy(Len(probe_log))) =>
            /\ Len(probe_log) = args.max_attempts
            /\ \A i \in 1..Len(probe_log) : probe_log[i].salt = i - 1
            /\ error = "RuntimeError"
            /\ exit_status # EXIT_OK
            /\ streams.stdout = <<>>

\* a run whose every candidate was busy, with the largest budget explored
C2_Witness ==
    /\ Exited
    /\ ValidRange
    /\ args.max_attempts = MaxAttempts
    /\ Len(probe_log) = MaxAttempts
    /\ ProbesBusy(Len(probe_log))
    /\ error = "RuntimeError"

\* C3: for every invalid range and every max_attempts the command line accepts,
\* the run fails with the invalid-range error, not the exhaustion error, and
\* nothing else happens before it: no probe, no inspection, no busy diagnostic,
\* no port line.
C3_InvalidRangeRejected ==
    (Exited /\ InvalidRange(min_port, max_port)) =>
        /\ error = "ValueError"
        /\ probe_log = <<>>
        /\ inspect_log = <<>>
        /\ InUseLines("stderr") = <<>>
        /\ streams.stdout = <<>>

\* C4: for every valid range, name and salt the derived port lies in
\* [min_port, max_port], and two calls with the same arguments give the same port.
C4_DeriveInRangeAndDeterministic ==
    /\ \A e \in derive_log :
          ~InvalidRange(e.min_port, e.max_port) =>
              /\ e.raised = "none"
              /\ e.min_port <= e.port
              /\ e.port <= e.max_port
    /\ \A e1, e2 \in derive_log :
          (/\ e1.name = e2.name
           /\ e1.salt = e2.salt
           /\ e1.min_port = e2.min_port
           /\ e1.max_port = e2.max_port) => e1.port = e2.port

\* one call reached the top port of the highest valid range, and another had a
\* digest prefix at least as large as the span, reduced back to min_port
C4_Witness ==
    \E e1, e2 \in derive_log :
        /\ ~InvalidRange(e1.min_port, e1.max_port)
        /\ e1.max_port = MAX_VALID_PORT
        /\ e1.port = e1.max_port
        /\ ~InvalidRange(e2.min_port, e2.max_port)
        /\ digests[HashData(e2.name, e2.salt)] >= PortSpan(e2.min_port, e2.max_port)
        /\ e2.port = e2.min_port

\* C5: stdout holds at most one line, and only the port returned by a search that
\* has succeeded; a successful run ends with exactly that line; busy diagnostics,
\* prompts, warnings and clipboard messages are all on stderr.
C5_StdoutOnlyThePort ==
    /\ Len(streams.stdout) <= 1
    /\ \A i \in 1..Len(streams.stdout) :
          /\ result.found
          /\ streams.stdout[i] = Msg("port", -1, result.port)
    /\ (Exited /\ result.found) => Len(streams.stdout) = 1
    /\ \A i \in 1..Len(streams.stderr) : streams.stderr[i].kind # "port"
    /\ Len(InUseLines("stderr")) = Len(inspect_log) - (IF pc = "in_use" THEN 1 ELSE 0)
    /\ Len(SelectSeq(streams.stderr, IsPrompt)) = Len(answers)
    /\ (Exited /\ clip.called) =>
          \E i \in 1..Len(streams.stderr) :
              streams.stderr[i].kind \in {"copied", "could not copy"}

\* a successful run that reported a busy port, prompted twice and tried to copy
C5_Witness ==
    /\ Exited
    /\ Len(streams.stdout) = 1
    /\ Len(InUseLines("stderr")) >= 1
    /\ Len(answers) = 2
    /\ clip.called
    /\ ~clip.ok

LastAnswer == answers[Len(answers)]
Prompted == answers # <<>>
AnsweredYes ==
    Prompted /\ ~LastAnswer.eof /\ LastAnswer.text \in YES \cup {<<>>}
AnsweredYesOrEof ==
    Prompted /\ (LastAnswer.eof \/ LastAnswer.text \in YES \cup {<<>>})
NeitherFlag == ~args.copy /\ ~args.no_copy
BothTty == tty.asked /\ tty.stdin /\ tty.stderr

\* a prompt is issued only without either flag and with both streams interactive
PromptOnlyWhenInteractive == Prompted => (NeitherFlag /\ BothTty)

\* C6 as stated: after a successful search the clipboard utility is invoked if and
\* only if --copy was given, or neither flag was given, stdin and stderr are both
\* terminals and the prompt was answered yes (a bare Enter counting as yes).
C6_CopyIffFlagOrYes ==
    /\ PromptOnlyWhenInteractive
    /\ (Exited /\ result.found) =>
          (clip.called <=> (args.copy \/ (NeitherFlag /\ BothTty /\ AnsweredYes)))

\* C6 amended: ... and the prompt was answered yes, where a bare Enter and end of
\* input on stdin both count as yes.
C6_CopyIffFlagOrYesOrEof ==
    /\ PromptOnlyWhenInteractive
    /\ (Exited /\ result.found) =>
          (clip.called <=> (args.copy \/ (NeitherFlag /\ BothTty /\ AnsweredYesOrEof)))

\* the prompt was repeated, then answered by a bare Enter, and the copy was made
C6_Witness ==
    /\ Exited
    /\ NeitherFlag
    /\ BothTty
    /\ Len(answers) = 2
    /\ ~LastAnswer.eof
    /\ LastAnswer.text = <<>>
    /\ clip.called

C8_InspectionAdvisory ==
    /\ error \in {"none", "RuntimeError", "ValueError"}
    /\ pc = "in_use" => listener \notin {NoListener, ""}
    /\ pc = "for_salt" =>
          /\ salt = Len(inspect_log)
          /\ Len(inspect_log) = Len(probe_log)
          /\ ProbesBusy(Len(probe_log))
    /\ (Exited /\ ValidRange /\ args.max_attempts >= 1) =>
          /\ Len(inspect_log) = Cardinality({i \in 1..Len(probe_log) : ~probe_log[i].free})
          /\ result.found <=> probe_log[Len(probe_log)].free
          /\ ~result.found <=> (error = "RuntimeError" /\ Len(probe_log) = args.max_attempts)

\* without psutil and with lsof missing, the second busy port of a search still
\* got a text report, the search having gone on after the first
C8_Witness ==
    /\ pc = "in_use"
    /\ ~PSUTIL_AVAILABLE
    /\ listener = "(command not found)"
    /\ salt = 1
    /\ Len(inspect_log) = 2

\* C9: at most one probe socket is ever open, and none outside the bind itself:
\* none while the next port is derived, during inspection, or once the search
\* has returned or raised.
C9_ProbeSocketReleased ==
    /\ open_sockets \in {0, 1}
    /\ pc \notin {"bind", "close"} => open_sockets = 0

\* inspection runs after a failed bind with the socket already closed
C9_Witness ==
    /\ pc = "describe"
    /\ Len(probe_log) = 2
    /\ ~bind_ok
    /\ open_sockets = 0

\* C10: two different (name, salt) pairs never give the same hash input.
C10_HashInputInjective ==
    \A a, b \in encode_log :
        a.data = b.data => (a.name = b.name /\ a.salt = b.salt)

\* a name ending in a digit and a name holding the separator, which plain
\* concatenation would confuse with other pairs
C10_Witness ==
    \E a, b \in encode_log :
        /\ a # b
        /\ HashData_NoSeparator(a.name, a.salt) = HashData_NoSeparator(b.name, b.salt)
        /\ a.data # b.data

====
